---- MODULE Spec2Model ----
(***************************************************************************)
(* Order-fulfilment core of the storefront backend: the inventory ledger,  *)
(* the cart -> order materializer and the payment session manager, as a    *)
(* state machine over the shared relational store.  Every request runs in  *)
(* its own ORM session: it reads committed rows, keeps its changes in the  *)
(* session and writes them (changed columns only) at db.commit().          *)
(* Money is counted in integer cents.                                      *)
(***************************************************************************)
EXTENDS Integers, Sequences, FiniteSets, TLC

\* ------------------------------------------------------------------ bounds
MaxReq == 2
MaxOrders == 2
MaxPayments == 2
MaxStock == 2
MaxQty == 2
MaxCartItems == 2
MaxStockCalls == 1
MaxVerifyCalls == 3

Users == {1, 2}
Products == {1, 2}
Reqs == 1..MaxReq

\* the payment ids the gateway hands out
PaymentIds == {1, 2}

\* ----------------------------------------------------------- program data
\* a status set that also admits "REFUNDED"
ALLOWED_STATUSES_any ==
    {"PENDING", "CONFIRMED", "PAID", "SHIPPED", "DELIVERED", "CANCELLED", "REFUNDED"}

ALLOWED_STATUSES == {"PENDING", "CONFIRMED", "PAID", "SHIPPED", "DELIVERED", "CANCELLED"}

NoRow == [total_stock |-> -1, available_stock |-> -1, reserved_stock |-> -1, exists |-> FALSE]

Inventory(total, avail, reserved) ==
    [total_stock |-> total, available_stock |-> avail, reserved_stock |-> reserved, exists |-> TRUE]

\* quantize that drops the fraction of a cent instead of rounding it half up
_quantize_money_down(v) == v \div 100

\* Decimal.quantize(Decimal("0.01"), ROUND_HALF_UP): v is a non-negative amount
\* in hundredths of a cent, the result is in cents.
_quantize_money(v) == (v + 50) \div 100

VARIABLES
    products,     \* catalog: product id -> [status, price]
    inventory,    \* inventory table: product id -> row, or NoRow
    cartExists,   \* carts table: user id -> a Cart row exists
    cartItems,    \* cart_items table: user id -> sequence of items, by item id
    nextItemId,   \* cart_items primary key sequence
    orders,       \* orders table with its order_items: sequence, index = order id
    payments,     \* payments table: sequence, index = payment id
    gatewayOrders,\* orders created at the payment gateway: index = gateway order id
    stockCalls,   \* how many finalize_stock, rollback_stock and update_inventory
                  \* calls were made
    verifyCalls,  \* how many verify_and_capture_payment calls were made
    req           \* the requests in flight: slot -> session state

vars == <<products, inventory, cartExists, cartItems, nextItemId, orders, payments,
          gatewayOrders, stockCalls, verifyCalls, req>>

\* ------------------------------------------------------------ request slots
Idle ==
    [op |-> "none", pc |-> "idle", user |-> 0, arg |-> 0,
     items |-> <<>>, idx |-> 0, price |-> 0, lines |-> <<>>,
     rows |-> [p \in Products |-> NoRow], dirty |-> {}, locks |-> {},
     data |-> [order_id |-> 0, razorpay_order_id |-> 0, razorpay_payment_id |-> 0,
               valid |-> FALSE],
     pay |-> 0, loaded |-> "", setPaid |-> FALSE, replay |-> FALSE,
     result |-> "", ret |-> <<>>]

Free(r) == req[r].pc \in {"idle", "done"}

\* a new request takes the lowest free slot (the slots are interchangeable)
Fresh(r) == Free(r) /\ \A r2 \in Reqs : r2 < r => ~Free(r2)

\* the end of a request: the session is closed, which rolls back what it has not
\* committed and releases its locks; the slot keeps what the caller was answered
Finish(r, result, ret) ==
    [Idle EXCEPT !.op = req[r].op, !.pc = "done", !.result = result, !.ret = ret]

\* the end of a payment request: the slot also keeps who called, with which
\* payload, and whether the answer is the replay of an earlier one
Answer(call, replay, result, ret) ==
    [Idle EXCEPT !.op = call.op, !.user = call.user, !.data = call.data,
                 !.replay = replay, !.pc = "done", !.result = result, !.ret = ret]

\* rows of the inventory table that some other session holds FOR UPDATE
LockedByOther(r, p) == \E r2 \in Reqs \ {r} : p \in req[r2].locks

Init ==
    /\ products = [p \in Products |->
                     [status |-> "active", price |-> IF p = 1 THEN 25 ELSE 1000,
                      stock |-> MaxQty]]
    /\ inventory = [p \in Products |-> NoRow]
    /\ cartExists = [u \in Users |-> FALSE]
    /\ cartItems = [u \in Users |-> <<>>]
    /\ nextItemId = 1
    /\ orders = <<>>
    /\ payments = <<>>
    /\ gatewayOrders = <<>>
    /\ stockCalls = 0
    /\ verifyCalls = 0
    /\ req = [r \in Reqs |-> Idle]

\* ------------------------------------------------------------------ catalog
\* ProductService.update_product: an admin changes a product's status.
update_product(p, status) ==
    /\ products[p].status # status
    /\ products' = [products EXCEPT ![p].status = status]
    /\ UNCHANGED <<inventory, cartExists, cartItems, nextItemId, orders, payments,
                   gatewayOrders, stockCalls, req, verifyCalls>>

\* ProductService.update_product: an admin changes a product's price.
update_product_price(p, price) ==
    /\ products[p].price # price
    /\ products' = [products EXCEPT ![p].price = price]
    /\ UNCHANGED <<inventory, cartExists, cartItems, nextItemId, orders, payments,
                   gatewayOrders, stockCalls, req, verifyCalls>>

\* --------------------------------------------------------------------- cart
ItemIndex(items, p) ==
    IF \E i \in 1..Len(items) : items[i].product_id = p
    THEN CHOOSE i \in 1..Len(items) : items[i].product_id = p
    ELSE 0

\* CartRepository.add_item: one CartItem per product, quantities are added up;
\* the unit_price is the catalog price when the item is first added.
CartAfterAdd(items, p, q, id) ==
    IF ItemIndex(items, p) # 0
    THEN [items EXCEPT ![ItemIndex(items, p)].quantity = @ + q]
    ELSE Append(items, [id |-> id, product_id |-> p, quantity |-> q,
                        unit_price |-> products[p].price])

\* CartService.add_item; the cart is created on first access, whatever follows.
add_item(u, p, q) ==
    /\ cartExists' = [cartExists EXCEPT ![u] = TRUE]
    /\ IF products[p].status = "active" /\ q <= products[p].stock
       THEN /\ IF ItemIndex(cartItems[u], p) # 0
               THEN /\ cartItems[u][ItemIndex(cartItems[u], p)].quantity + q <= MaxQty
                    /\ q > 0
                    /\ UNCHANGED nextItemId
               ELSE /\ nextItemId <= MaxCartItems
                    /\ nextItemId' = nextItemId + 1
            /\ cartItems' = [cartItems EXCEPT ![u] = CartAfterAdd(@, p, q, nextItemId)]
       ELSE /\ ~cartExists[u]
            /\ UNCHANGED <<cartItems, nextItemId, verifyCalls>>
    /\ UNCHANGED <<products, inventory, orders, payments, gatewayOrders, stockCalls,
                   req, verifyCalls>>

\* ---------------------------------------------------------- inventory ledger
\* create_inventory_for_product: product_id is unique, a second row is refused.
create_inventory_for_product(p, stock) ==
    /\ ~inventory[p].exists
    /\ inventory' = [inventory EXCEPT ![p] = Inventory(stock, stock, 0)]
    /\ UNCHANGED <<products, cartExists, cartItems, nextItemId, orders, payments,
                   gatewayOrders, stockCalls, req, verifyCalls>>

\* a table without the unique constraint accepts every insert
UniqueViolation_none(p) == FALSE

\* Inventory.product_id is unique: the INSERT of a second row for p raises
\* IntegrityError at db.commit()
UniqueViolation(p) == inventory[p].exists

\* POST /inventory/: create_inventory_for_product and its answer.  The refused
\* INSERT rolls back with the session; the slot keeps the product asked for.
create_inventory(r, p, stock) ==
    /\ Fresh(r)
    /\ IF UniqueViolation(p)
       THEN /\ req' = [req EXCEPT ![r] =
                   [Idle EXCEPT !.op = "create_inventory", !.pc = "done", !.arg = p,
                                !.result = "IntegrityError"]]
            /\ UNCHANGED inventory
       ELSE /\ req' = [req EXCEPT ![r] =
                   [Idle EXCEPT !.op = "create_inventory", !.pc = "done", !.arg = p,
                                !.result = "ok", !.ret = <<p>>]]
            /\ inventory' = [inventory EXCEPT ![p] = Inventory(stock, stock, 0)]
    /\ UNCHANGED <<products, cartExists, cartItems, nextItemId, orders, payments,
                   gatewayOrders, stockCalls, verifyCalls>>

Columns == {"total_stock", "available_stock", "reserved_stock"}

\* the columns of row p that differ between the loaded row and the session's copy
Changed(p, old, new) == {<<p, c>> : c \in {c \in Columns : old[c] # new[c]}}

\* db.commit() of a session: the UPDATE sets the changed columns, and only those.
ApplyWrites(inv, rows, dirty) ==
    [p \in Products |->
        [c \in DOMAIN inv[p] |-> IF <<p, c>> \in dirty THEN rows[p][c] ELSE inv[p][c]]]

DirtyRows(r) == {w[1] : w \in req[r].dirty}

\* an UPDATE waits for the row locks other transactions hold
CanWrite(r) == \A p \in DirtyRows(r) : ~LockedByOther(r, p)

\* an adjustment that starts the row over: everything available, nothing reserved
AdjustedRow_cleared(inv, total) ==
    [inv EXCEPT !.total_stock = total, !.available_stock = total,
                !.reserved_stock = 0]

\* update_inventory (PUT /inventory/{product_id}): read the row, no lock
AdjustedRow(inv, total) ==
    [inv EXCEPT !.total_stock = total,
                !.available_stock = @ + (total - inv.total_stock)]

update_inventory_read(r, p, total) ==
    /\ Fresh(r)
    /\ stockCalls < MaxStockCalls
    /\ stockCalls' = stockCalls + 1
    /\ IF ~inventory[p].exists
       THEN req' = [req EXCEPT ![r] =
                [Idle EXCEPT !.op = "update_inventory", !.pc = "done",
                             !.result = "NotFound"]]
       ELSE req' = [req EXCEPT ![r] =
                [Idle EXCEPT !.op = "update_inventory", !.pc = "commit", !.arg = p,
                             !.rows = [@ EXCEPT ![p] = AdjustedRow(inventory[p], total)],
                             !.dirty = Changed(p, inventory[p],
                                               AdjustedRow(inventory[p], total))]]
    /\ UNCHANGED <<products, inventory, cartExists, cartItems, nextItemId, orders,
                   payments, gatewayOrders, verifyCalls>>

update_inventory_commit(r) ==
    /\ req[r].op = "update_inventory" /\ req[r].pc = "commit"
    /\ CanWrite(r)
    /\ inventory' = ApplyWrites(inventory, req[r].rows, req[r].dirty)
    /\ req' = [req EXCEPT ![r] = Finish(r, "ok", <<>>)]
    /\ UNCHANGED <<products, cartExists, cartItems, nextItemId, orders, payments,
                   gatewayOrders, stockCalls, verifyCalls>>

\* finalize_stock / rollback_stock: the order's items, then one unlocked read
\* of the inventory row per item, then one commit.
FinalizedRow(inv, q) ==
    [inv EXCEPT !.reserved_stock = @ - q, !.total_stock = @ - q]

\* a release that forgets to give the units back
RolledBackRow_kept(inv, q) ==
    [inv EXCEPT !.reserved_stock = @ - q]

RolledBackRow(inv, q) ==
    [inv EXCEPT !.reserved_stock = @ - q, !.available_stock = @ + q]

StockRow(op, inv, q) ==
    IF op = "finalize_stock" THEN FinalizedRow(inv, q) ELSE RolledBackRow(inv, q)

stock_begin(r, op, o) ==
    /\ Fresh(r)
    /\ o \in 1..Len(orders)
    /\ stockCalls < MaxStockCalls
    /\ stockCalls' = stockCalls + 1
    /\ req' = [req EXCEPT ![r] =
            [Idle EXCEPT !.op = op, !.arg = o, !.items = orders[o].items, !.idx = 1,
                         !.pc = IF orders[o].items = <<>> THEN "commit" ELSE "read"]]
    /\ UNCHANGED <<products, inventory, cartExists, cartItems, nextItemId, orders,
                   payments, gatewayOrders, verifyCalls>>

finalize_stock_begin(r, o) == stock_begin(r, "finalize_stock", o)

rollback_stock_begin(r, o) == stock_begin(r, "rollback_stock", o)

\* get_by_product_id(db, item.product_id), then the two assignments; a missing
\* row is None and the attribute access raises.
stock_read(r) ==
    /\ req[r].op \in {"finalize_stock", "rollback_stock"} /\ req[r].pc = "read"
    /\ LET item == req[r].items[req[r].idx]
           p == item.product_id
           new == StockRow(req[r].op, inventory[p], item.quantity)
       IN IF ~inventory[p].exists
          THEN req' = [req EXCEPT ![r] = Finish(r, "Crash", <<>>)]
          ELSE req' = [req EXCEPT ![r] =
                  [@ EXCEPT !.rows = [@ EXCEPT ![p] = new],
                            !.dirty = @ \cup Changed(p, inventory[p], new),
                            !.idx = @ + 1,
                            !.pc = IF req[r].idx = Len(req[r].items)
                                   THEN "commit" ELSE "read"]]
    /\ UNCHANGED <<products, inventory, cartExists, cartItems, nextItemId, orders,
                   payments, gatewayOrders, stockCalls, verifyCalls>>

stock_commit(r) ==
    /\ req[r].op \in {"finalize_stock", "rollback_stock"} /\ req[r].pc = "commit"
    /\ CanWrite(r)
    /\ inventory' = ApplyWrites(inventory, req[r].rows, req[r].dirty)
    /\ req' = [req EXCEPT ![r] = Finish(r, "ok", <<>>)]
    /\ UNCHANGED <<products, cartExists, cartItems, nextItemId, orders, payments,
                   gatewayOrders, stockCalls, verifyCalls>>

\* --------------------------------------------------------- order materializer
Range(seq) == {seq[i] : i \in 1..Len(seq)}

RECURSIVE SumQty(_)
SumQty(items) ==
    IF items = <<>> THEN 0 ELSE items[1].quantity + SumQty(Tail(items))

RECURSIVE SumTotal(_)
SumTotal(lines) ==
    IF lines = <<>> THEN 0 ELSE lines[1].total_price + SumTotal(Tail(lines))

\* valid_items = [item for item in cart.items if item.quantity and item.quantity > 0]
ValidItems(items) == SelectSeq(items, LAMBDA it : it.quantity > 0)

InFlight(op) == {r \in Reqs : req[r].op = op /\ ~Free(r)}

\* the cart query, the two emptiness checks and the flush of the new Order
create_order_from_cart_begin(r, u) ==
    /\ Fresh(r)
    /\ Len(orders) + Cardinality(InFlight("checkout")) < MaxOrders
    /\ IF ~cartExists[u] \/ ValidItems(cartItems[u]) = <<>>
       THEN req' = [req EXCEPT ![r] =
                [Idle EXCEPT !.op = "checkout", !.pc = "done",
                             !.result = "EmptyCart"]]
       ELSE req' = [req EXCEPT ![r] =
                [Idle EXCEPT !.op = "checkout", !.user = u, !.pc = "product",
                             !.items = ValidItems(cartItems[u]), !.idx = 1]]
    /\ UNCHANGED <<products, inventory, cartExists, cartItems, nextItemId, orders,
                   payments, gatewayOrders, stockCalls, verifyCalls>>

\* a checkout that prices the line with the unit_price stored on the cart item
create_order_from_cart_product_stored(r) ==
    /\ req[r].op = "checkout" /\ req[r].pc = "product"
    /\ LET it == req[r].items[req[r].idx]
       IN IF products[it.product_id].status # "active"
          THEN req' = [req EXCEPT ![r] = Finish(r, "ProductUnavailable", <<>>)]
          ELSE req' = [req EXCEPT ![r] =
                  [@ EXCEPT !.pc = "lock", !.price = it.unit_price]]
    /\ UNCHANGED <<products, inventory, cartExists, cartItems, nextItemId, orders,
                   payments, gatewayOrders, stockCalls, verifyCalls>>

\* the Product query of one cart line: the product must be active
create_order_from_cart_product(r) ==
    /\ req[r].op = "checkout" /\ req[r].pc = "product"
    /\ LET p == req[r].items[req[r].idx].product_id
       IN IF products[p].status # "active"
          THEN req' = [req EXCEPT ![r] = Finish(r, "ProductUnavailable", <<>>)]
          ELSE req' = [req EXCEPT ![r] =
                  [@ EXCEPT !.pc = "lock", !.price = products[p].price]]
    /\ UNCHANGED <<products, inventory, cartExists, cartItems, nextItemId, orders,
                   payments, gatewayOrders, stockCalls, verifyCalls>>

\* the query without .with_for_update(): it never waits
CanLock_unlocked(r, p) == TRUE

\* .with_for_update(): the SELECT waits while another transaction holds the row
CanLock(r, p) == ~LockedByOther(r, p)

\* inventory.available_stock < cart_item.quantity raises
HasStock(inv, q) == ~(inv.available_stock < q)

\* a reservation that takes the units without booking them as reserved
ReservedRow_unbooked(inv, q) ==
    [inv EXCEPT !.available_stock = @ - q]

\* inventory.available_stock -= quantity; inventory.reserved_stock += quantity
ReservedRow(inv, q) ==
    [inv EXCEPT !.available_stock = @ - q, !.reserved_stock = @ + q]

\* a reservation committed line by line, as reserve_stock does
TableAfterReserve_committed(inv, rows, dirty) == ApplyWrites(inv, rows, dirty)

\* the two assignments change the session's Inventory object only: the table
\* keeps its rows until db.commit()
TableAfterReserve(inv, rows, dirty) == inv

\* unit_price, line_total and the OrderItem of one cart line
OrderLine(p, price, q) ==
    [product_id |-> p,
     unit_price |-> _quantize_money(price * 100),
     quantity |-> q,
     total_price |-> _quantize_money(_quantize_money(price * 100) * q * 100)]

\* the locking Inventory query of one cart line, the stock check, the reservation
create_order_from_cart_reserve(r) ==
    /\ req[r].op = "checkout" /\ req[r].pc = "lock"
    /\ LET item == req[r].items[req[r].idx]
           p == item.product_id
           q == item.quantity
       IN /\ inventory[p].exists => CanLock(r, p)
          /\ IF ~inventory[p].exists
             THEN req' = [req EXCEPT ![r] = Finish(r, "InventoryNotFound", <<>>)]
             ELSE IF ~HasStock(inventory[p], q)
             THEN req' = [req EXCEPT ![r] =
                     Finish(r, "InsufficientStock", <<p, q, req[r].idx>>)]
             ELSE req' = [req EXCEPT ![r] =
                     [@ EXCEPT !.locks = @ \cup {p},
                               !.rows = [@ EXCEPT ![p] = ReservedRow(inventory[p], q)],
                               !.dirty = @ \cup Changed(p, inventory[p],
                                                        ReservedRow(inventory[p], q)),
                               !.lines = Append(@, OrderLine(p, req[r].price, q)),
                               !.idx = @ + 1,
                               !.pc = IF req[r].idx = Len(req[r].items)
                                      THEN "commit" ELSE "product"]]
    /\ inventory' = TableAfterReserve(inventory, req'[r].rows, req'[r].dirty)
    /\ UNCHANGED <<products, cartExists, cartItems, nextItemId, orders,
                   payments, gatewayOrders, stockCalls, verifyCalls>>

\* the database breaks a cycle of transactions waiting for each other's row
\* locks by aborting one of them
Blockers(r) ==
    IF req[r].op = "checkout" /\ req[r].pc = "lock"
    THEN {r2 \in Reqs \ {r} : req[r].items[req[r].idx].product_id \in req[r2].locks}
    ELSE {}

RECURSIVE WaitsOn(_, _)
WaitsOn(rs, n) ==
    IF n = 0 THEN rs
    ELSE WaitsOn(rs \cup UNION {Blockers(r2) : r2 \in rs}, n - 1)

Deadlocked(r) == r \in WaitsOn(Blockers(r), MaxReq)

create_order_from_cart_deadlock(r) ==
    /\ Deadlocked(r)
    /\ req' = [req EXCEPT ![r] = Finish(r, "Deadlock", <<>>)]
    /\ UNCHANGED <<products, inventory, cartExists, cartItems, nextItemId, orders,
                   payments, gatewayOrders, stockCalls, verifyCalls>>

\* tax, grand_total and the Order row with its OrderItems
NewOrder(u, lines) ==
    LET subtotal == SumTotal(lines)
        discount == 0
        tax == _quantize_money(subtotal * 18)
    IN [user_id |-> u, status |-> "PENDING", payment_method |-> "", items |-> lines,
        total_items |-> SumQty(lines),
        subtotal |-> _quantize_money(subtotal * 100),
        tax |-> tax,
        discount |-> _quantize_money(discount * 100),
        grand_total |-> _quantize_money((subtotal + tax - discount) * 100)]

\* self.db.delete(item) for the items loaded with the cart: a row that is gone
\* by now matches nothing
WithoutItems(items, gone) ==
    SelectSeq(items, LAMBDA it : it.id \notin {g.id : g \in Range(gone)})

\* db.commit(): the order, its items, the reservations and the cart deletions
create_order_from_cart_commit(r) ==
    /\ req[r].op = "checkout" /\ req[r].pc = "commit"
    /\ orders' = Append(orders, NewOrder(req[r].user, req[r].lines))
    /\ inventory' = ApplyWrites(inventory, req[r].rows, req[r].dirty)
    /\ cartItems' = [cartItems EXCEPT ![req[r].user] = WithoutItems(@, req[r].items)]
    /\ req' = [req EXCEPT ![r] = Finish(r, "ok", <<Len(orders) + 1>>)]
    /\ UNCHANGED <<products, cartExists, nextItemId, payments, gatewayOrders,
                   stockCalls, verifyCalls>>

\* a status update that releases the order's reservations on cancellation
update_status_releasing(o, new_status) ==
    /\ new_status \in ALLOWED_STATUSES
    /\ o \in 1..Len(orders)
    /\ orders[o].status # new_status
    /\ orders' = [orders EXCEPT ![o].status = new_status]
    /\ inventory' =
           IF new_status = "CANCELLED"
           THEN [p \in Products |->
                    IF inventory[p].exists
                    THEN RolledBackRow(inventory[p],
                             SumQty(SelectSeq(orders[o].items,
                                              LAMBDA it : it.product_id = p)))
                    ELSE inventory[p]]
           ELSE inventory
    /\ UNCHANGED <<products, cartExists, cartItems, nextItemId, payments,
                   gatewayOrders, stockCalls, req, verifyCalls>>

\* OrderService.update_status (admin)
update_status(o, new_status) ==
    /\ new_status \in ALLOWED_STATUSES
    /\ o \in 1..Len(orders)
    /\ orders[o].status # new_status
    /\ orders' = [orders EXCEPT ![o].status = new_status]
    /\ UNCHANGED <<products, inventory, cartExists, cartItems, nextItemId, payments,
                   gatewayOrders, stockCalls, req, verifyCalls>>

\* OrderService.update_status as one request whose answer is kept: the status
\* check comes first, then the order query, the assignment and the commit
update_status_request(r, order_id, new_status) ==
    /\ Fresh(r)
    /\ LET call == [Idle EXCEPT !.op = "update_status", !.arg = order_id,
                                !.loaded = new_status, !.pc = "done"]
       IN IF new_status \notin ALLOWED_STATUSES
          THEN /\ req' = [req EXCEPT ![r] = [call EXCEPT !.result = "InvalidStatus"]]
               /\ UNCHANGED orders
          ELSE IF order_id \notin 1..Len(orders)
          THEN /\ req' = [req EXCEPT ![r] = [call EXCEPT !.result = "NotFound"]]
               /\ UNCHANGED orders
          ELSE /\ req' = [req EXCEPT ![r] =
                       [call EXCEPT !.result = "ok", !.ret = <<order_id>>]]
               /\ orders' = [orders EXCEPT ![order_id].status = new_status]
    /\ UNCHANGED <<products, inventory, cartExists, cartItems, nextItemId, payments,
                   gatewayOrders, stockCalls, verifyCalls>>

\* payment_status.upper(), on the payment statuses that are sent
Upper(s) ==
    CASE s \in {"paid", "Paid", "PAID"} -> "PAID"
      [] s \in {"failed", "Failed", "FAILED"} -> "FAILED"
      [] OTHER -> s

\* an attach that books the paid amount as the order's grand_total
AttachedOrder_charged(order, payment_method, amount, payment_status) ==
    [order EXCEPT !.payment_method = payment_method,
                  !.grand_total = _quantize_money(amount * 100),
                  !.status = IF Upper(payment_status) = "PAID" THEN "PAID" ELSE @]

\* the assignments of attach_payment that reach the orders table: payment_method
\* and, for a PAID payment, status (transaction_id, payment_status and
\* amount_paid are no columns of Order and stay on the session's object)
AttachedOrder(order, payment_method, amount, payment_status) ==
    [order EXCEPT !.payment_method = payment_method,
                  !.status = IF Upper(payment_status) = "PAID" THEN "PAID" ELSE @]

\* OrderService.attach_payment
attach_payment(order_id, payment_method, amount, payment_status) ==
    /\ order_id \in 1..Len(orders)
    /\ orders' = [orders EXCEPT ![order_id] =
                     AttachedOrder(@, payment_method, amount, payment_status)]
    /\ orders' # orders
    /\ UNCHANGED <<products, inventory, cartExists, cartItems, nextItemId, payments,
                   gatewayOrders, stockCalls, req, verifyCalls>>

\* ---------------------------------------------------------------- order reads
\* the ids of S, newest first (order_by(Order.created_at.desc()))
RECURSIVE Newest(_)
Newest(S) ==
    IF S = {} THEN <<>>
    ELSE LET m == CHOOSE x \in S : \A y \in S : y <= x
         IN <<m>> \o Newest(S \ {m})

\* .filter(Order.user_id == user_id)
OrdersOf(user_id) == {o \in 1..Len(orders) : orders[o].user_id = user_id}

\* OrderService.list_user_orders
list_user_orders(r, user_id) ==
    /\ Fresh(r)
    /\ req' = [req EXCEPT ![r] =
            [Idle EXCEPT !.op = "list_user_orders", !.user = user_id, !.pc = "done",
                         !.result = "ok", !.ret = Newest(OrdersOf(user_id))]]
    /\ UNCHANGED <<products, inventory, cartExists, cartItems, nextItemId, orders,
                   payments, gatewayOrders, stockCalls, verifyCalls>>

\* a read that hands every order to whoever asks
NotAuthorized_never(order_id, user_id) == FALSE

\* if order.user_id != user_id: raise HTTPException(403, ...)
NotAuthorized(order_id, user_id) == orders[order_id].user_id # user_id

\* OrderService.get_order_for_user
get_order_for_user(r, order_id, user_id) ==
    /\ Fresh(r)
    /\ LET call == [Idle EXCEPT !.op = "get_order_for_user", !.user = user_id,
                                !.arg = order_id, !.pc = "done"]
       IN req' = [req EXCEPT ![r] =
               IF order_id \notin 1..Len(orders)
               THEN [call EXCEPT !.result = "NotFound"]
               ELSE IF NotAuthorized(order_id, user_id)
               THEN [call EXCEPT !.result = "Forbidden"]
               ELSE [call EXCEPT !.result = "ok", !.ret = <<order_id>>]]
    /\ UNCHANGED <<products, inventory, cartExists, cartItems, nextItemId, orders,
                   payments, gatewayOrders, stockCalls, verifyCalls>>

\* ----------------------------------------------------- payment session manager
\* query(...).first(): the matching row with the lowest id, 0 when there is none
First(S) == IF S = {} THEN 0 ELSE CHOOSE k \in S : \A j \in S : k <= j

PendingFor(o, u) ==
    {k \in 1..Len(payments) :
        /\ payments[k].order_id = o
        /\ payments[k].user_id = u
        /\ payments[k].status = "PENDING"}

\* PaymentSessionResponse: razorpay_order_id, amount in paise, order_id
SessionResponse(gid, o) == <<gid, orders[o].grand_total, o>>

ReusablePayment_none(o, u) == 0

\* the IDEMPOTENT SESSION branch: an existing PENDING payment is reused
ReusablePayment(o, u) == First(PendingFor(o, u))

\* the order with its ownership check, the PAID check, the reuse of a PENDING
\* payment, the amount check and razorpay_client.order.create
create_payment_session_check(r, u, o, gatewayUp) ==
    /\ Fresh(r)
    /\ LET start == [Idle EXCEPT !.op = "create_payment_session", !.user = u, !.arg = o]
           fail(kind) == Answer(start, FALSE, kind, <<>>)
       IN IF ~(o \in 1..Len(orders) /\ orders[o].user_id = u)
          THEN /\ req' = [req EXCEPT ![r] = fail("NotFound")]
               /\ UNCHANGED gatewayOrders
          ELSE IF orders[o].status = "PAID"
          THEN /\ req' = [req EXCEPT ![r] = fail("AlreadyPaid")]
               /\ UNCHANGED gatewayOrders
          ELSE IF ReusablePayment(o, u) # 0
          THEN /\ req' = [req EXCEPT ![r] =
                      Answer(start, TRUE, "ok",
                             SessionResponse(
                                 payments[ReusablePayment(o, u)].razorpay_order_id, o))]
               /\ UNCHANGED gatewayOrders
          ELSE IF orders[o].grand_total = 0
          THEN /\ req' = [req EXCEPT ![r] = fail("NoPayableAmount")]
               /\ UNCHANGED gatewayOrders
          ELSE IF ~gatewayUp
          THEN /\ req' = [req EXCEPT ![r] = fail("GatewayError")]
               /\ UNCHANGED gatewayOrders
          ELSE /\ Len(gatewayOrders) < MaxPayments
               /\ gatewayOrders' = Append(gatewayOrders,
                                          [order_id |-> o, amount |-> orders[o].grand_total])
               /\ req' = [req EXCEPT ![r] =
                      [start EXCEPT !.pc = "insert", !.pay = Len(gatewayOrders) + 1]]
    /\ UNCHANGED <<products, inventory, cartExists, cartItems, nextItemId, orders,
                   payments, stockCalls, verifyCalls>>

\* Payment(order_id, user_id, razorpay_order_id, amount, currency, status="PENDING"):
\* razorpay_payment_id and razorpay_signature are not set (0 stands for NULL)
NewPayment(o, u, gid) ==
    [order_id |-> o, user_id |-> u, razorpay_order_id |-> gid,
     razorpay_payment_id |-> 0, status |-> "PENDING", amount |-> orders[o].grand_total]

\* db.add(payment); db.commit()
create_payment_session_insert(r) ==
    /\ req[r].op = "create_payment_session" /\ req[r].pc = "insert"
    /\ payments' = Append(payments, NewPayment(req[r].arg, req[r].user, req[r].pay))
    /\ req' = [req EXCEPT ![r] =
            Answer(req[r], FALSE, "ok", SessionResponse(req[r].pay, req[r].arg))]
    /\ UNCHANGED <<products, inventory, cartExists, cartItems, nextItemId, orders,
                   gatewayOrders, stockCalls, verifyCalls>>

\* the dict verify_and_capture_payment returns (currency is always "INR")
PaymentRead(k) ==
    <<k, payments[k].order_id, payments[k].user_id, payments[k].status,
      payments[k].amount>>

\* a lookup by order and gateway order alone, whoever calls
SessionsFor_anyone(u, data) ==
    {k \in 1..Len(payments) :
        /\ payments[k].order_id = data.order_id
        /\ payments[k].razorpay_order_id = data.razorpay_order_id}

SessionsFor(u, data) ==
    {k \in 1..Len(payments) :
        /\ payments[k].order_id = data.order_id
        /\ payments[k].user_id = u
        /\ payments[k].razorpay_order_id = data.razorpay_order_id}

AlreadyCaptured_never(k) == FALSE

\* the IDEMPOTENCY GUARD: payment.status == "SUCCESS" returns the record as it is
AlreadyCaptured(k) == payments[k].status = "SUCCESS"

\* the Payment query with its ownership check, and the idempotency guard
verify_and_capture_payment_read(r, u, data) ==
    /\ Fresh(r)
    /\ verifyCalls < MaxVerifyCalls
    /\ verifyCalls' = verifyCalls + 1
    /\ LET start == [Idle EXCEPT !.op = "verify_and_capture_payment", !.user = u,
                                 !.data = data]
           k == First(SessionsFor(u, data))
       IN IF k = 0
          THEN req' = [req EXCEPT ![r] =
                  Answer(start, FALSE, "NotFound", <<>>)]
          ELSE IF AlreadyCaptured(k)
          THEN req' = [req EXCEPT ![r] =
                  Answer(start, TRUE, "ok", PaymentRead(k))]
          ELSE req' = [req EXCEPT ![r] =
                  [start EXCEPT !.pc = "signature", !.pay = k,
                                !.loaded = payments[k].status,
                                !.arg = payments[k].razorpay_payment_id]]
    /\ UNCHANGED <<products, inventory, cartExists, cartItems, nextItemId, orders,
                   payments, gatewayOrders, stockCalls>>

FailedPayments_kept(pays, k, loaded) == pays

\* the except branch: payment.status = "FAILED"; db.commit() (an UPDATE is sent
\* only when the loaded status was another one)
FailedPayments(pays, k, loaded) ==
    IF loaded = "FAILED" THEN pays ELSE [pays EXCEPT ![k].status = "FAILED"]

\* order.status != "PAID", read from the orders table
MustMarkPaid(o) == orders[o].status # "PAID"

\* verify_payment_signature, then either the FAILED commit or the assignments
\* of the try block with its Order query
verify_and_capture_payment_signature(r) ==
    /\ req[r].op = "verify_and_capture_payment" /\ req[r].pc = "signature"
    /\ IF ~req[r].data.valid
       THEN /\ payments' = FailedPayments(payments, req[r].pay, req[r].loaded)
            /\ req' = [req EXCEPT ![r] = Answer(req[r], FALSE, "SignatureInvalid", <<req[r].pay>>)]
       ELSE /\ req' = [req EXCEPT ![r] =
                   [@ EXCEPT !.pc = "commit",
                             !.setPaid = MustMarkPaid(payments[req[r].pay].order_id)]]
            /\ UNCHANGED payments
    /\ UNCHANGED <<products, inventory, cartExists, cartItems, nextItemId, orders,
                   gatewayOrders, stockCalls, verifyCalls>>

Conflicts_none(k, pid) == FALSE

\* uq_order_payment_idempotent: UNIQUE (order_id, razorpay_payment_id), checked
\* when the UPDATE changes razorpay_payment_id
Conflicts(k, pid) ==
    \E j \in 1..Len(payments) :
        /\ j # k
        /\ payments[j].order_id = payments[k].order_id
        /\ payments[j].razorpay_payment_id = pid

\* the UPDATE of the payment row: the session's razorpay_payment_id and status
CapturedPayments(pays, k, pid) ==
    [pays EXCEPT ![k].razorpay_payment_id = pid, ![k].status = "SUCCESS"]

PaidOrders_skipped(os, o, setPaid) == os

\* the UPDATE of the order row, when the session found it not PAID
PaidOrders(os, o, setPaid) ==
    IF setPaid THEN [os EXCEPT ![o].status = "PAID"] ELSE os

\* db.commit(): both UPDATEs in one transaction, or IntegrityError and rollback
verify_and_capture_payment_commit(r) ==
    /\ req[r].op = "verify_and_capture_payment" /\ req[r].pc = "commit"
    /\ LET k == req[r].pay
           pid == req[r].data.razorpay_payment_id
       IN IF req[r].arg # pid /\ Conflicts(k, pid)
          THEN /\ req' = [req EXCEPT ![r] = [@ EXCEPT !.pc = "reread"]]
               /\ UNCHANGED <<payments, orders, verifyCalls>>
          ELSE /\ payments' = CapturedPayments(payments, k, pid)
               /\ orders' = PaidOrders(orders, payments[k].order_id, req[r].setPaid)
               /\ req' = [req EXCEPT ![r] = [@ EXCEPT !.pc = "refresh"]]
    /\ UNCHANGED <<products, inventory, cartExists, cartItems, nextItemId,
                   gatewayOrders, stockCalls, verifyCalls>>

\* db.refresh(payment) and the returned dict
verify_and_capture_payment_refresh(r) ==
    /\ req[r].op = "verify_and_capture_payment" /\ req[r].pc = "refresh"
    /\ req' = [req EXCEPT ![r] = Answer(req[r], FALSE, "ok", PaymentRead(req[r].pay))]
    /\ UNCHANGED <<products, inventory, cartExists, cartItems, nextItemId, orders,
                   payments, gatewayOrders, stockCalls, verifyCalls>>

Winners(data) ==
    {k \in 1..Len(payments) :
        /\ payments[k].order_id = data.order_id
        /\ payments[k].razorpay_payment_id = data.razorpay_payment_id}

\* except IntegrityError: the rollback is done, the winning row is read again
\* and returned; existing.id raises when no row matches
verify_and_capture_payment_reread(r) ==
    /\ req[r].op = "verify_and_capture_payment" /\ req[r].pc = "reread"
    /\ LET existing == First(Winners(req[r].data))
       IN IF existing = 0
          THEN req' = [req EXCEPT ![r] = Answer(req[r], FALSE, "Crash", <<>>)]
          ELSE req' = [req EXCEPT ![r] = Answer(req[r], FALSE, "ok", PaymentRead(existing))]
    /\ UNCHANGED <<products, inventory, cartExists, cartItems, nextItemId, orders,
                   payments, gatewayOrders, stockCalls, verifyCalls>>

\* -------------------------------------------------------------- specifications
\* carts, catalog and checkouts
CheckoutNext ==
    \/ \E p \in Products, s \in {"active", "inactive"} : update_product(p, s)
    \/ \E u \in Users, p \in Products, q \in 0..MaxQty : add_item(u, p, q)
    \/ \E p \in Products, s \in 1..MaxStock : create_inventory_for_product(p, s)
    \/ \E r \in Reqs, u \in Users : create_order_from_cart_begin(r, u)
    \/ \E r \in Reqs : create_order_from_cart_product(r)
    \/ \E r \in Reqs : create_order_from_cart_reserve(r)
    \/ \E r \in Reqs : create_order_from_cart_commit(r)

SpecCheckout == Init /\ [][CheckoutNext]_vars

\* the inventory ledger: checkouts and the operations that maintain the rows
InventoryNext ==
    \/ \E u \in Users, p \in Products, q \in 1..MaxQty : add_item(u, p, q)
    \/ \E p \in Products, s \in 1..MaxStock : create_inventory_for_product(p, s)
    \/ \E r \in Reqs, p \in Products, t \in 0..MaxStock : update_inventory_read(r, p, t)
    \/ \E r \in Reqs : update_inventory_commit(r)
    \/ \E r \in Reqs, o \in 1..MaxOrders : finalize_stock_begin(r, o)
    \/ \E r \in Reqs, o \in 1..MaxOrders : rollback_stock_begin(r, o)
    \/ \E r \in Reqs : stock_read(r)
    \/ \E r \in Reqs : stock_commit(r)
    \/ \E r \in Reqs, u \in Users : create_order_from_cart_begin(r, u)
    \/ \E r \in Reqs : create_order_from_cart_product(r)
    \/ \E r \in Reqs : create_order_from_cart_reserve(r)
    \/ \E r \in Reqs : create_order_from_cart_commit(r)

SpecInventory == Init /\ [][InventoryNext]_vars

\* the payloads of verify_and_capture_payment; valid stands for a
\* razorpay_signature the gateway accepts, and a payload it rejects is the same
\* call whatever razorpay_payment_id it names
VerifyRequests ==
    {d \in [order_id : {1}, razorpay_order_id : 1..MaxPayments,
            razorpay_payment_id : PaymentIds, valid : BOOLEAN] :
        ~d.valid => d.razorpay_payment_id = 1}

\* one order of user 1 and its payments; user 2 is a stranger to the order

PaymentNext ==
    \/ add_item(1, 1, 1)
    \/ create_inventory_for_product(1, MaxStock)
    \/ \E r \in Reqs :
           orders = <<>> /\ InFlight("checkout") = {} /\ create_order_from_cart_begin(r, 1)
    \/ \E r \in Reqs : create_order_from_cart_product(r)
    \/ \E r \in Reqs : create_order_from_cart_reserve(r)
    \/ \E r \in Reqs : create_order_from_cart_commit(r)
    \/ \E st \in {"PENDING", "PAID", "CANCELLED"} : update_status(1, st)
    \/ \E r \in Reqs, u \in Users, up \in BOOLEAN :
           create_payment_session_check(r, u, 1, up)
    \/ \E r \in Reqs : create_payment_session_insert(r)
    \/ \E r \in Reqs, d \in VerifyRequests :
           verify_and_capture_payment_read(r, 1, d)
    \/ \E r \in Reqs : verify_and_capture_payment_signature(r)
    \/ \E r \in Reqs : verify_and_capture_payment_commit(r)
    \/ \E r \in Reqs : verify_and_capture_payment_refresh(r)
    \/ \E r \in Reqs : verify_and_capture_payment_reread(r)

SpecPayment == Init /\ [][PaymentNext]_vars

\* the payment session manager on its own: no admin changes the order's status
CaptureNext ==
    \/ add_item(1, 1, 1)
    \/ create_inventory_for_product(1, MaxStock)
    \/ \E r \in Reqs :
           orders = <<>> /\ InFlight("checkout") = {} /\ create_order_from_cart_begin(r, 1)
    \/ \E r \in Reqs : create_order_from_cart_product(r)
    \/ \E r \in Reqs : create_order_from_cart_reserve(r)
    \/ \E r \in Reqs : create_order_from_cart_commit(r)
    \/ \E r \in Reqs, u \in Users, up \in BOOLEAN :
           create_payment_session_check(r, u, 1, up)
    \/ \E r \in Reqs : create_payment_session_insert(r)
    \/ \E r \in Reqs, d \in VerifyRequests :
           verify_and_capture_payment_read(r, 1, d)
    \/ \E r \in Reqs : verify_and_capture_payment_signature(r)
    \/ \E r \in Reqs : verify_and_capture_payment_commit(r)
    \/ \E r \in Reqs : verify_and_capture_payment_refresh(r)
    \/ \E r \in Reqs : verify_and_capture_payment_reread(r)

SpecCapture == Init /\ [][CaptureNext]_vars

\* the carts and checkouts of both users and their order reads
ReadsNext ==
    \/ \E u \in Users, p \in Products : add_item(u, p, 1)
    \/ \E p \in Products : create_inventory_for_product(p, MaxStock)
    \/ \E r \in Reqs, u \in Users : create_order_from_cart_begin(r, u)
    \/ \E r \in Reqs : create_order_from_cart_product(r)
    \/ \E r \in Reqs : create_order_from_cart_reserve(r)
    \/ \E r \in Reqs : create_order_from_cart_commit(r)
    \/ \E r \in Reqs, o \in 1..MaxOrders, u \in Users : get_order_for_user(r, o, u)
    \/ \E r \in Reqs, u \in Users : list_user_orders(r, u)

SpecReads == Init /\ [][ReadsNext]_vars

\* a catalog in which product 1 is free of charge (ProductCreate.price is an
\* unconstrained float), so that an order can have nothing to pay
InitSession ==
    /\ products = [p \in Products |->
                     [status |-> "active", price |-> IF p = 1 THEN 0 ELSE 1000,
                      stock |-> MaxQty]]
    /\ inventory = [p \in Products |-> NoRow]
    /\ cartExists = [u \in Users |-> FALSE]
    /\ cartItems = [u \in Users |-> <<>>]
    /\ nextItemId = 1
    /\ orders = <<>>
    /\ payments = <<>>
    /\ gatewayOrders = <<>>
    /\ stockCalls = 0
    /\ verifyCalls = 0
    /\ req = [r \in Reqs |-> Idle]

\* PaymentSessionCreate.order_id: the order the sessions are asked for
AskedOrder == 1

\* one order of user 1, free or not, and the payment calls of both users on it
\* (the gateway is up; the payloads name one gateway payment id)
SessionNext ==
    \/ \E p \in Products : add_item(1, p, 1)
    \/ \E p \in Products : create_inventory_for_product(p, MaxStock)
    \/ \E r \in Reqs :
           orders = <<>> /\ InFlight("checkout") = {} /\ create_order_from_cart_begin(r, 1)
    \/ \E r \in Reqs : create_order_from_cart_product(r)
    \/ \E r \in Reqs : create_order_from_cart_reserve(r)
    \/ \E r \in Reqs : create_order_from_cart_commit(r)
    \/ \E r \in Reqs, u \in Users :
           create_payment_session_check(r, u, AskedOrder, TRUE)
    \/ \E r \in Reqs : create_payment_session_insert(r)
    \/ \E r \in Reqs, u \in Users, d \in VerifyRequests :
           d.razorpay_payment_id = 1 /\ verify_and_capture_payment_read(r, u, d)
    \/ \E r \in Reqs : verify_and_capture_payment_signature(r)
    \/ \E r \in Reqs : verify_and_capture_payment_commit(r)
    \/ \E r \in Reqs : verify_and_capture_payment_refresh(r)
    \/ \E r \in Reqs : verify_and_capture_payment_reread(r)

SpecSession == InitSession /\ [][SessionNext]_vars

\* the statuses an admin asks for ("REFUNDED" is outside the allowed set), the
\* prices the admin gives product 1, and what attach_payment is called with
StatusInputs == {"CANCELLED", "REFUNDED"}
PriceInputs == {25, 50}
AttachInputs == {<<"CARD", 30, "paid">>}

\* the orders of user 1 under everything that runs after their creation: status
\* updates and attach_payment on order 1, price changes, cart changes, a later
\* checkout, and one payment session of order 1 with one capture (a single
\* session leaves no uniqueness conflict to absorb)
OrdersNext ==
    \/ add_item(1, 1, 1)
    \/ create_inventory_for_product(1, MaxStock)
    \/ \E price \in PriceInputs : update_product_price(1, price)
    \/ \E r \in Reqs : create_order_from_cart_begin(r, 1)
    \/ \E r \in Reqs : create_order_from_cart_product(r)
    \/ \E r \in Reqs : create_order_from_cart_reserve(r)
    \/ \E r \in Reqs : create_order_from_cart_commit(r)
    \/ \E r \in Reqs, st \in StatusInputs : update_status_request(r, 1, st)
    \/ \E a \in AttachInputs : attach_payment(1, a[1], a[2], a[3])
    \/ \E r \in Reqs : gatewayOrders = <<>> /\ create_payment_session_check(r, 1, 1, TRUE)
    \/ \E r \in Reqs : create_payment_session_insert(r)
    \/ \E r \in Reqs, d \in VerifyRequests :
           /\ verifyCalls = 0 /\ d.valid /\ d.razorpay_payment_id = 1
           /\ verify_and_capture_payment_read(r, 1, d)
    \/ \E r \in Reqs : verify_and_capture_payment_signature(r)
    \/ \E r \in Reqs : verify_and_capture_payment_commit(r)
    \/ \E r \in Reqs : verify_and_capture_payment_refresh(r)

SpecOrders == Init /\ [][OrdersNext]_vars

\* the ledger's set-up calls beside user 1's carts and checkouts: rows are
\* asked for again while they hold a reservation
LedgerNext ==
    \/ \E p \in Products, q \in 1..MaxQty : add_item(1, p, q)
    \/ \E r \in Reqs, p \in Products, s \in 1..MaxStock : create_inventory(r, p, s)
    \/ \E r \in Reqs : create_order_from_cart_begin(r, 1)
    \/ \E r \in Reqs : create_order_from_cart_product(r)
    \/ \E r \in Reqs : create_order_from_cart_reserve(r)
    \/ \E r \in Reqs : create_order_from_cart_commit(r)

SpecLedger == Init /\ [][LedgerNext]_vars


\* two carts that hold the same two products, added in opposite order
InitCarts ==
    /\ products = [p \in Products |->
                     [status |-> "active", price |-> IF p = 1 THEN 25 ELSE 1000,
                      stock |-> MaxQty]]
    /\ inventory = [p \in Products |-> NoRow]
    /\ cartExists = [u \in Users |-> TRUE]
    /\ cartItems = [u \in Users |->
                      IF u = 1
                      THEN <<[id |-> 1, product_id |-> 1, quantity |-> 1, unit_price |-> 25],
                             [id |-> 2, product_id |-> 2, quantity |-> 1, unit_price |-> 1000]>>
                      ELSE <<[id |-> 3, product_id |-> 2, quantity |-> 1, unit_price |-> 1000],
                             [id |-> 4, product_id |-> 1, quantity |-> 1, unit_price |-> 25]>>]
    /\ nextItemId = 5
    /\ orders = <<>>
    /\ payments = <<>>
    /\ gatewayOrders = <<>>
    /\ stockCalls = 0
    /\ verifyCalls = 0
    /\ req = [r \in Reqs |-> Idle]

\* checkouts of the two carts side by side
LocksNext ==
    \/ \E u \in Users, p \in Products : add_item(u, p, 1)
    \/ \E p \in Products, s \in 1..MaxStock : create_inventory_for_product(p, s)
    \/ \E r \in Reqs, u \in Users : create_order_from_cart_begin(r, u)
    \/ \E r \in Reqs : create_order_from_cart_product(r)
    \/ \E r \in Reqs : create_order_from_cart_reserve(r)
    \/ \E r \in Reqs : create_order_from_cart_deadlock(r)
    \/ \E r \in Reqs : create_order_from_cart_commit(r)

SpecLocks == InitCarts /\ [][LocksNext]_vars

\* every operation that runs against a reserved row except finalize_stock and
\* rollback_stock: checkouts of user 1, stock adjustments by the admin, a
\* cancellation, one payment session and its capture
ReservedNext ==
    \/ \E q \in 1..MaxQty : add_item(1, 1, q)
    \/ \E s \in 1..MaxStock : create_inventory_for_product(1, s)
    \/ \E r \in Reqs, t \in 0..MaxStock : update_inventory_read(r, 1, t)
    \/ \E r \in Reqs : update_inventory_commit(r)
    \/ \E r \in Reqs : create_order_from_cart_begin(r, 1)
    \/ \E r \in Reqs : create_order_from_cart_product(r)
    \/ \E r \in Reqs : create_order_from_cart_reserve(r)
    \/ \E r \in Reqs : create_order_from_cart_commit(r)
    \/ update_status(1, "CANCELLED")
    \/ \E r \in Reqs : gatewayOrders = <<>> /\ create_payment_session_check(r, 1, 1, TRUE)
    \/ \E r \in Reqs : create_payment_session_insert(r)
    \/ \E r \in Reqs, d \in VerifyRequests :
           /\ verifyCalls = 0 /\ d.valid /\ d.razorpay_payment_id = 1
           /\ verify_and_capture_payment_read(r, 1, d)
    \/ \E r \in Reqs : verify_and_capture_payment_signature(r)
    \/ \E r \in Reqs : verify_and_capture_payment_commit(r)
    \/ \E r \in Reqs : verify_and_capture_payment_refresh(r)

SpecReserved == Init /\ [][ReservedNext]_vars

\* ------------------------------------------------------------------- claims
Quiescent == \A r \in Reqs : Free(r)

\* the quantity of product p held by the orders
RECURSIVE Granted(_, _)
Granted(os, p) ==
    IF os = <<>> THEN 0
    ELSE SumQty(SelectSeq(os[1].items, LAMBDA it : it.product_id = p))
         + Granted(Tail(os), p)

Refused(r, p) ==
    /\ req[r].op = "checkout" /\ req[r].pc = "done"
    /\ req[r].result = "InsufficientStock" /\ req[r].ret[1] = p

\* C1: no oversell.  With checkouts as the only writers of a row, the quantities
\* of a product that the committed orders hold never exceed the stock the row
\* was created with, and a checkout is refused with InsufficientStock only when
\* granting its line would exceed that stock.
C1_NoOversell ==
    \A p \in Products :
        inventory[p].exists =>
            /\ Granted(orders, p) <= inventory[p].total_stock
            /\ \A r \in Reqs :
                   Refused(r, p) =>
                       Granted(orders, p) + req[r].ret[2] > inventory[p].total_stock

\* two checkouts of quantity 1 raced for a stock of 1: one order, one refusal
C1_Witness ==
    \E p \in Products, r1, r2 \in Reqs :
        /\ inventory[p].exists /\ inventory[p].total_stock = 1
        /\ Refused(r1, p) /\ req[r1].ret[2] = 1
        /\ req[r2].op = "checkout" /\ req[r2].pc = "done" /\ req[r2].result = "ok"
        /\ Len(orders) = 1 /\ Granted(orders, p) = 1

\* the SUCCESS payments of order o
Captured(o) ==
    {k \in 1..Len(payments) :
        payments[k].order_id = o /\ payments[k].status = "SUCCESS"}

\* C2: in every reachable state an order has at most one payment row whose
\* status is SUCCESS.
C2_SingleSuccess ==
    \A o \in 1..Len(orders) : Cardinality(Captured(o)) <= 1

\* C3: at quiescence every Inventory row has
\* total_stock = available_stock + reserved_stock.
C3_Conservation ==
    Quiescent =>
        \A p \in Products :
            inventory[p].exists =>
                inventory[p].total_stock
                    = inventory[p].available_stock + inventory[p].reserved_stock

\* C4: every step of a checkout, except the commit of a successful one, leaves
\* the inventory rows, the orders with their items and the cart items as they
\* are; a checkout that fails has made such steps only.
C4_FailedCheckoutNoEffect ==
    [][\A r \in Reqs :
          (/\ req'[r] # req[r]
           /\ req'[r].op = "checkout"
           /\ ~(req'[r].pc = "done" /\ req'[r].result = "ok"))
          => UNCHANGED <<inventory, orders, cartItems>>]_vars

\* a checkout was refused on its second line, after its first line was reserved
C4_Witness ==
    \E r \in Reqs :
        /\ req[r].op = "checkout" /\ req[r].pc = "done"
        /\ req[r].result = "InsufficientStock" /\ req[r].ret[3] = 2

\* slot r holds the answer of a verify_and_capture_payment call that succeeded
Verified(r) ==
    /\ req[r].op = "verify_and_capture_payment" /\ req[r].pc = "done"
    /\ req[r].result = "ok"

\* a verify_and_capture_payment call starts in slot r in this step
VerifyStarts(r) == Fresh(r) /\ verifyCalls' # verifyCalls

\* C5: verify_and_capture_payment is idempotent.  When a call with a valid
\* payload was answered with its payment row as SUCCESS, the row is still as it
\* was answered (no other call came in between) and the same user calls again with
\* the same payload, then the second call is answered at once with the same state
\* (id, order_id, user_id, status SUCCESS, amount) and changes neither the
\* payments, so that no second row becomes SUCCESS, nor the orders.
C5_VerifyIdempotent ==
    [][\A r \in Reqs :
          (/\ Verified(r) /\ req[r].data.valid
           /\ req[r].ret[1] = First(SessionsFor(req[r].user, req[r].data))
           /\ req[r].ret[4] = "SUCCESS"
           /\ req[r].ret = PaymentRead(req[r].ret[1])
           /\ VerifyStarts(r)
           /\ req'[r].user = req[r].user /\ req'[r].data = req[r].data)
          => /\ req'[r].pc = "done" /\ req'[r].result = "ok"
             /\ req'[r].ret = req[r].ret
             /\ UNCHANGED <<payments, orders>>]_vars

\* the only payment row was captured by one call and a second call with the same
\* payload was answered from the row
C5_Witness ==
    /\ verifyCalls = 2 /\ Len(payments) = 1 /\ Quiescent
    /\ Verified(1) /\ req[1].replay /\ req[1].data.valid
    /\ req[2].op # "verify_and_capture_payment"
    /\ payments[1].status = "SUCCESS"
    /\ payments[1].razorpay_payment_id = req[1].data.razorpay_payment_id
    /\ req[1].ret = PaymentRead(1)

\* slot r holds the answer to a verify_and_capture_payment call that had a valid
\* signature and matched a payment session
Matched(r) ==
    /\ req[r].op = "verify_and_capture_payment" /\ req[r].pc = "done"
    /\ req[r].data.valid /\ req[r].result # "NotFound"

\* the only two verify_and_capture_payment calls made were for the same capture
\* and both are answered, in slots r1 and r2
SameCapture(r1, r2) ==
    /\ r1 # r2 /\ verifyCalls = 2
    /\ Matched(r1) /\ Matched(r2)
    /\ req[r1].data.order_id = req[r2].data.order_id
    /\ req[r1].data.razorpay_payment_id = req[r2].data.razorpay_payment_id

\* C6: when two verify_and_capture_payment calls for the same capture (same
\* order, same gateway payment id, valid signatures) are the only ones, then
\* however they interleave neither ends in an error, both are answered with the
\* same payment row as SUCCESS, exactly one payment row of the order is SUCCESS
\* and the order is PAID; the call whose commit violates the uniqueness
\* constraint is answered with the row that won.
C6_ConcurrentCapture ==
    \A r1, r2 \in Reqs :
        SameCapture(r1, r2) =>
            /\ req[r1].result = "ok" /\ req[r2].result = "ok"
            /\ req[r1].ret = req[r2].ret
            /\ req[r1].ret[4] = "SUCCESS"
            /\ Captured(req[r1].data.order_id) = {req[r1].ret[1]}
            /\ orders[req[r1].data.order_id].status = "PAID"

\* the two calls named two payment sessions of the order: the second commit
\* violated the constraint and was answered with the winner's row
C6_Witness ==
    \E r1, r2 \in Reqs :
        /\ SameCapture(r1, r2)
        /\ req[r1].data.razorpay_order_id # req[r2].data.razorpay_order_id
        /\ req[r1].result = "ok" /\ req[r2].result = "ok"
        /\ req[r1].ret = req[r2].ret

\* slot r holds the answer of a create_payment_session call that succeeded
Opened(r) ==
    /\ req[r].op = "create_payment_session" /\ req[r].pc = "done"
    /\ req[r].result = "ok"

\* C7: session reuse.  When create_payment_session was answered with a gateway
\* order id, the payment row of that session is still the order's only PENDING
\* row, the order is not PAID, and the same user calls again for the same order,
\* then the second call is answered with the same gateway order id and creates
\* neither a gateway order nor a payment row.
C7_SessionReuse ==
    [][\A r \in Reqs :
          (/\ Opened(r)
           /\ orders[req[r].ret[3]].status # "PAID"
           /\ \E k \in 1..Len(payments) :
                 /\ PendingFor(req[r].ret[3], req[r].user) = {k}
                 /\ payments[k].razorpay_order_id = req[r].ret[1]
           /\ Fresh(r) /\ req'[r] # req[r]
           /\ req'[r].op = "create_payment_session"
           /\ req'[r].user = req[r].user)
          => /\ req'[r].pc = "done" /\ req'[r].result = "ok"
             /\ req'[r].ret = req[r].ret
             /\ UNCHANGED <<payments, gatewayOrders>>]_vars

\* a second call was answered from the PENDING row: one row, one gateway order
C7_Witness ==
    \E r \in Reqs :
        /\ Opened(r) /\ req[r].replay
        /\ Len(payments) = 1 /\ Len(gatewayOrders) = 1
        /\ req[r].ret[1] = payments[1].razorpay_order_id

\* C8: in every reachable state an order has at most one PENDING payment row,
\* however the create_payment_session calls for it interleave.
C8_SinglePending ==
    \A o \in 1..Len(orders) :
        Cardinality({k \in 1..Len(payments) :
                        payments[k].order_id = o /\ payments[k].status = "PENDING"}) <= 1

\* the gateway rejects the signature of the call in slot r in this step
SignatureRejected(r) ==
    /\ req[r].op = "verify_and_capture_payment" /\ req[r].pc = "signature"
    /\ ~req[r].data.valid
    /\ req'[r] # req[r]

Captures(r) ==
    /\ req[r].op = "verify_and_capture_payment" /\ req[r].pc = "commit"
    /\ req'[r].pc = "refresh"

\* C10: the commit of a successful verify_and_capture_payment leaves the
\* payment SUCCESS and the order PAID: no state shows the one without the other.
C10_CapturePaysOrder ==
    [][\A r \in Reqs :
          Captures(r)
          => /\ payments'[req[r].pay].status = "SUCCESS"
             /\ orders'[payments[req[r].pay].order_id].status = "PAID"]_vars

\* C10 as the code has it: the commit writes the payment as SUCCESS and, when the
\* call read the order as not PAID, the order as PAID, both in one step; when the
\* call read the order as PAID it does not write the order.
C10_CaptureOneCommit ==
    [][\A r \in Reqs :
          Captures(r)
          => /\ payments'[req[r].pay].status = "SUCCESS"
             /\ IF req[r].setPaid
                THEN orders'[payments[req[r].pay].order_id].status = "PAID"
                ELSE orders' = orders]_vars

\* a commit has just written the payment and the order it read as PENDING
C10_Witness ==
    \E r \in Reqs :
        /\ req[r].op = "verify_and_capture_payment" /\ req[r].pc = "refresh"
        /\ req[r].setPaid
        /\ payments[req[r].pay].status = "SUCCESS"
        /\ orders[payments[req[r].pay].order_id].status = "PAID"

\* C11: in every reachable state every Inventory row has available_stock >= 0
\* and reserved_stock >= 0.
C11_NonNegativeStock ==
    \A p \in Products :
        inventory[p].exists =>
            inventory[p].available_stock >= 0 /\ inventory[p].reserved_stock >= 0

\* the units of product p among the cart lines a checkout loaded
UnitsOf(items, p) == SumQty(SelectSeq(items, LAMBDA it : it.product_id = p))

\* the step at which checkout r commits successfully
CheckoutCommits(r) ==
    req[r].op = "checkout" /\ req[r].pc = "commit" /\ req'[r].result = "ok"

\* C12: a successful checkout of a cart whose positive-quantity lines are
\* (p_i, q_i) creates exactly one order, with status PENDING and one OrderItem
\* per such line with quantity q_i, and for each p_i lowers available_stock by
\* q_i, raises reserved_stock by q_i and leaves total_stock unchanged.
C12_CheckoutReserves ==
    [][\A r \in Reqs :
          CheckoutCommits(r) =>
              LET its == req[r].items
                  o == orders'[Len(orders')]
              IN /\ its = ValidItems(its) /\ its # <<>>
                 /\ orders' = Append(orders, o)
                 /\ o.status = "PENDING"
                 /\ o.user_id = req[r].user
                 /\ Len(o.items) = Len(its)
                 /\ \A i \in 1..Len(its) :
                        /\ o.items[i].product_id = its[i].product_id
                        /\ o.items[i].quantity = its[i].quantity
                 /\ \A p \in Products :
                        /\ inventory'[p].exists = inventory[p].exists
                        /\ inventory'[p].total_stock = inventory[p].total_stock
                        /\ inventory'[p].available_stock =
                               inventory[p].available_stock - UnitsOf(its, p)
                        /\ inventory'[p].reserved_stock =
                               inventory[p].reserved_stock + UnitsOf(its, p)]_vars

\* a checkout has created a two-line order and the row of one of its products
\* stands at total 2, available 0, reserved 2
C12_Witness ==
    \E r \in Reqs :
        /\ req[r].op = "checkout" /\ req[r].result = "ok"
        /\ Len(orders) >= 1
        /\ Len(orders[req[r].ret[1]].items) = 2
        /\ \E p \in Products :
               inventory[p] = Inventory(MaxStock, 0, MaxStock)

\* the sum of unit_price * quantity over the lines of an order, in cents
RECURSIVE LineSum(_)
LineSum(lines) ==
    IF lines = <<>> THEN 0
    ELSE lines[1].unit_price * lines[1].quantity + LineSum(Tail(lines))

\* t is x hundredths of a cent rounded half up to the cent
HalfUp(t, x) == 100 * t <= x + 50 /\ x + 50 < 100 * t + 100

\* C13: for every order created by checkout, in integer cents, subtotal is the
\* sum of the line totals (each unit_price * quantity), tax is 18% of the
\* subtotal rounded half up to the cent, discount is 0, and grand_total equals
\* subtotal + tax - discount exactly.
C13_OrderTotals ==
    \A i \in 1..Len(orders) :
        LET o == orders[i]
        IN /\ \A k \in 1..Len(o.items) :
                  o.items[k].total_price = o.items[k].unit_price * o.items[k].quantity
           /\ o.subtotal = LineSum(o.items)
           /\ HalfUp(o.tax, 18 * o.subtotal)
           /\ o.discount = 0
           /\ o.grand_total = o.subtotal + o.tax - o.discount

\* an order whose 18% falls on half a cent: subtotal 10.25, tax 1.845 -> 1.85
C13_Witness ==
    \E i \in 1..Len(orders) :
        /\ Len(orders[i].items) = 2
        /\ orders[i].subtotal = 1025
        /\ orders[i].tax = 185
        /\ orders[i].grand_total = 1210

\* the cart items that were certainly in the cart when checkout r loaded it:
\* item ids grow with every insert, so a row older than a loaded row was there
\* at that time
OlderThanLoaded(r, it) == \E ld \in Range(req[r].items) : it.id < ld.id

\* C14: after a successful checkout the user's cart still exists and none of
\* the cart items that were in it when the checkout started is left in it.
C14_CartEmptied ==
    [][\A r \in Reqs :
          CheckoutCommits(r) =>
              /\ cartExists'[req[r].user]
              /\ \A it \in Range(cartItems'[req[r].user]) :
                     ~OlderThanLoaded(r, it)]_vars

\* verify call r, which found its Payment row already FAILED, commits
VerifiesFailedRow(r) ==
    /\ req[r].op = "verify_and_capture_payment" /\ req[r].pc = "commit"
    /\ req[r].loaded = "FAILED"
    /\ payments[req[r].pay].status = "FAILED"

\* C15: a Payment row marked FAILED by a signature failure is terminal: a later
\* verify_and_capture_payment call against that row neither changes it to
\* SUCCESS nor sets the order to PAID.
C15_FailedIsTerminal ==
    [][\A r \in Reqs :
          VerifiesFailedRow(r) =>
              /\ payments'[req[r].pay].status # "SUCCESS"
              /\ orders' = orders]_vars

\* a create_payment_session call of user u starts in slot r in this step
SessionStarts(r, u) ==
    /\ Free(r) /\ req'[r] # req[r]
    /\ req'[r].op = "create_payment_session" /\ req'[r].user = u

\* what the call finds stored when it starts
OrderOwnedBy(u) == AskedOrder \in 1..Len(orders) /\ orders[AskedOrder].user_id = u
OrderIsPaid == orders[AskedOrder].status = "PAID"
HasPending(u) ==
    \E k \in 1..Len(payments) :
        /\ payments[k].order_id = AskedOrder /\ payments[k].user_id = u
        /\ payments[k].status = "PENDING"
NothingToPay == orders[AskedOrder].grand_total = 0

StoredStateUnchanged ==
    UNCHANGED <<products, inventory, cartExists, cartItems, nextItemId, orders,
                payments, gatewayOrders>>

\* C16: create_payment_session creates a gateway order, and then a Payment row,
\* only when the order it reads belongs to the caller, is not PAID, has no
\* reusable PENDING payment and has a non-zero grand_total; a call for an order
\* that is not the caller's fails with NotFound, for a PAID order with
\* AlreadyPaid, for an order without PENDING payment and with grand_total zero
\* with NoPayableAmount, and a failing call creates nothing and changes no
\* stored state.
C16_SessionGuards ==
    [][/\ \A r \in Reqs, u \in Users :
              SessionStarts(r, u) =>
                  /\ ~OrderOwnedBy(u) => req'[r].result = "NotFound"
                  /\ OrderOwnedBy(u) /\ OrderIsPaid => req'[r].result = "AlreadyPaid"
                  /\ OrderOwnedBy(u) /\ ~OrderIsPaid /\ ~HasPending(u) /\ NothingToPay
                         => req'[r].result = "NoPayableAmount"
                  /\ req'[r].result \in {"NotFound", "AlreadyPaid", "NoPayableAmount"}
                         => StoredStateUnchanged
                  /\ gatewayOrders' # gatewayOrders =>
                         /\ OrderOwnedBy(u) /\ ~OrderIsPaid /\ ~HasPending(u)
                         /\ ~NothingToPay
                         /\ req'[r].pc = "insert"
                  /\ payments' = payments /\ orders' = orders
       /\ gatewayOrders' # gatewayOrders => \E r \in Reqs, u \in Users : SessionStarts(r, u)
       /\ Len(payments') > Len(payments) =>
              \E r \in Reqs :
                  /\ req[r].op = "create_payment_session" /\ req[r].pc = "insert"
                  /\ req'[r].pc = "done"
                  /\ payments' = Append(payments, payments'[Len(payments')])
                  /\ payments'[Len(payments')].user_id = req[r].user
                  /\ payments'[Len(payments')].order_id = AskedOrder
                  /\ orders[AskedOrder].user_id = req[r].user
                  /\ payments'[Len(payments')].razorpay_order_id \in 1..Len(gatewayOrders)
                  /\ gatewayOrders' = gatewayOrders /\ orders' = orders]_vars

\* the order is free of charge; the stranger was refused with NotFound and the
\* owner with NoPayableAmount, and nothing was created
C16_Witness ==
    /\ Len(orders) = 1 /\ orders[1].grand_total = 0
    /\ \E r1, r2 \in Reqs :
           /\ req[r1].op = "create_payment_session" /\ req[r1].user = 2
           /\ req[r1].result = "NotFound"
           /\ req[r2].op = "create_payment_session" /\ req[r2].user = 1
           /\ req[r2].result = "NoPayableAmount"
    /\ payments = <<>> /\ gatewayOrders = <<>>

\* slot r takes a step of a verify_and_capture_payment call (its start included)
VerifySteps(r) ==
    req'[r] # req[r] /\ req'[r].op = "verify_and_capture_payment"

\* a Payment row matches the payload's order and gateway order and the caller
MatchesPayload(k, u, data) ==
    /\ payments[k].order_id = data.order_id
    /\ payments[k].user_id = u
    /\ payments[k].razorpay_order_id = data.razorpay_order_id

\* C17: verify_and_capture_payment fails with NotFound and changes no Payment
\* and no Order when no Payment row matches the payload's (order_id, calling
\* user_id, gateway_order_id); no step of a verify call changes a Payment or an
\* order of another user.
C17_VerifyOwnership ==
    [][\A r \in Reqs :
          VerifySteps(r) =>
              /\ (/\ Free(r)
                  /\ \A k \in 1..Len(payments) :
                         ~MatchesPayload(k, req'[r].user, req'[r].data))
                     => /\ req'[r].result = "NotFound" /\ req'[r].pc = "done"
                        /\ payments' = payments /\ orders' = orders
              /\ \A k \in 1..Len(payments) :
                     payments[k].user_id # req'[r].user => payments'[k] = payments[k]
              /\ \A o \in 1..Len(orders) :
                     orders[o].user_id # req'[r].user => orders'[o] = orders[o]]_vars

\* user 2 was refused with NotFound for the order and gateway order of a
\* session of user 1 that is still PENDING, with a valid signature in hand
C17_Witness ==
    \E r \in Reqs, k \in 1..Len(payments) :
        /\ req[r].op = "verify_and_capture_payment" /\ req[r].user = 2
        /\ req[r].result = "NotFound" /\ req[r].data.valid
        /\ payments[k].order_id = req[r].data.order_id
        /\ payments[k].razorpay_order_id = req[r].data.razorpay_order_id
        /\ payments[k].user_id = 1 /\ payments[k].status = "PENDING"
        /\ orders[payments[k].order_id].status = "PENDING"

\* a call of the one-step operation op is answered in slot r in this step
Answered(r, op) ==
    Free(r) /\ req'[r] # req[r] /\ req'[r].op = op /\ req'[r].pc = "done"

\* C18: order reads enforce ownership.  get_order_for_user returns an order only
\* to the user whose user_id it carries, fails with Forbidden for any other user
\* and with NotFound when the order does not exist; list_user_orders returns
\* only orders whose user_id is the requesting user.
C18_ReadOwnership ==
    [][\A r \in Reqs :
          /\ Answered(r, "get_order_for_user") =>
                 LET o == req'[r].arg
                     u == req'[r].user
                 IN /\ o \notin 1..Len(orders) =>
                           req'[r].result = "NotFound" /\ req'[r].ret = <<>>
                    /\ o \in 1..Len(orders) /\ orders[o].user_id # u =>
                           req'[r].result = "Forbidden" /\ req'[r].ret = <<>>
                    /\ o \in 1..Len(orders) /\ orders[o].user_id = u =>
                           req'[r].result = "ok" /\ req'[r].ret = <<o>>
          /\ Answered(r, "list_user_orders") =>
                 \A i \in 1..Len(req'[r].ret) :
                     /\ req'[r].ret[i] \in 1..Len(orders)
                     /\ orders[req'[r].ret[i]].user_id = req'[r].user]_vars

\* each user owns one order; user 2 was refused user 1's order with Forbidden
\* and got only the own order listed
C18_Witness ==
    /\ Len(orders) = 2 /\ orders[1].user_id = 1 /\ orders[2].user_id = 2
    /\ \E r1, r2 \in Reqs :
           /\ req[r1].op = "get_order_for_user" /\ req[r1].user = 2
           /\ req[r1].arg = 1 /\ req[r1].result = "Forbidden"
           /\ req[r2].op = "list_user_orders" /\ req[r2].user = 2
           /\ req[r2].ret = <<2>>

\* C19: update_status with a target status outside {PENDING, CONFIRMED, PAID,
\* SHIPPED, DELIVERED, CANCELLED} fails with InvalidStatus and leaves the order
\* unchanged, and after every step every order's status is a member of that set.
C19_StatusValidated ==
    [][/\ \A r \in Reqs :
              (/\ Answered(r, "update_status")
               /\ req'[r].loaded \notin
                      {"PENDING", "CONFIRMED", "PAID", "SHIPPED", "DELIVERED", "CANCELLED"})
                  => req'[r].result = "InvalidStatus" /\ orders' = orders
       /\ \A o \in 1..Len(orders') :
              orders'[o].status \in
                  {"PENDING", "CONFIRMED", "PAID", "SHIPPED", "DELIVERED", "CANCELLED"}]_vars

\* order 1 is PAID; of the admin's two calls on it, the one for REFUNDED was
\* refused with InvalidStatus and the one for CANCELLED was accepted
C19_Witness ==
    /\ Len(orders) >= 1 /\ orders[1].status = "PAID"
    /\ \E r1, r2 \in Reqs :
           /\ req[r1].op = "update_status" /\ req[r1].arg = 1
           /\ req[r1].loaded = "REFUNDED" /\ req[r1].result = "InvalidStatus"
           /\ req[r2].op = "update_status" /\ req[r2].arg = 1
           /\ req[r2].loaded = "CANCELLED" /\ req[r2].result = "ok"

\* C20: once an order is created, no operation changes its user_id, its
\* OrderItems, or its total_items, subtotal, tax, discount and grand_total;
\* only its status and its payment linkage (payment_method) change, and the
\* order stays in the table.
C20_OrderImmutable ==
    [][\A o \in 1..Len(orders) :
          /\ o <= Len(orders')
          /\ orders'[o] = [orders[o] EXCEPT !.status = orders'[o].status,
                                            !.payment_method = orders'[o].payment_method]]_vars

\* order 1 was priced at 0.25, then paid by a capture, attached to a card
\* payment and cancelled by the admin, and a later checkout created order 2 at
\* the new price 0.50
C20_Witness ==
    /\ Len(orders) = 2
    /\ orders[1].items[1].unit_price = 25 /\ orders[1].grand_total = 30
    /\ orders[2].items[1].unit_price = 50
    /\ orders[1].payment_method = "CARD" /\ orders[1].status = "CANCELLED"
    /\ Len(payments) = 1 /\ payments[1].status = "SUCCESS"

\* finalize_stock call r commits
FinalizeCommits(r) ==
    req[r].op = "finalize_stock" /\ req[r].pc = "commit" /\ req'[r].result = "ok"

\* C21: finalize_stock(order) decreases, for each OrderItem of the order, the
\* product's reserved_stock and total_stock by the item's quantity and leaves
\* available_stock unchanged.
C21_FinalizeConsumes ==
    [][\A r \in Reqs :
          FinalizeCommits(r) =>
              \A p \in Products :
                  /\ inventory'[p].reserved_stock =
                         inventory[p].reserved_stock - UnitsOf(req[r].items, p)
                  /\ inventory'[p].total_stock =
                         inventory[p].total_stock - UnitsOf(req[r].items, p)
                  /\ inventory'[p].available_stock = inventory[p].available_stock]_vars

\* the one checkout that succeeded was followed by one rollback_stock of its
\* order, and nothing else touched the ledger
ReleasedOnce ==
    /\ Quiescent
    /\ Len(orders) = 1
    /\ stockCalls = 1
    /\ \E r \in Reqs : req[r].op = "rollback_stock" /\ req[r].result = "ok"

\* C22: release reverses a reservation.  After a successful checkout followed
\* by one rollback_stock of the created order, every inventory row is back at
\* its values before the checkout: nothing reserved, and all of total_stock
\* available, as create_inventory_for_product left it.
C22_ReleaseReverses ==
    ReleasedOnce =>
        \A p \in Products :
            inventory[p].exists =>
                /\ inventory[p].reserved_stock = 0
                /\ inventory[p].available_stock = inventory[p].total_stock

\* an order of two units of product 1 was released: the row, created with
\* MaxStock units, has MaxStock units available again
C22_Witness ==
    /\ ReleasedOnce
    /\ UnitsOf(orders[1].items, 1) = 2
    /\ inventory[1] = Inventory(MaxStock, MaxStock, 0)

\* C23: create_inventory_for_product for a product that already has an
\* inventory row fails and leaves the row's total_stock, available_stock and
\* reserved_stock unchanged; a row is inserted only for a product that has
\* none, so no product ever has two rows.
C23_CreateOnce ==
    [][\A r \in Reqs :
          Answered(r, "create_inventory") =>
              LET p == req'[r].arg
              IN IF inventory[p].exists
                 THEN req'[r].result = "IntegrityError" /\ inventory' = inventory
                 ELSE /\ req'[r].result = "ok"
                      /\ inventory'[p].exists
                      /\ \A p2 \in Products \ {p} : inventory'[p2] = inventory[p2]]_vars

\* a create for product 1 was refused, and the row of product 1 stands with a
\* reservation
C23_Witness ==
    /\ \E r \in Reqs :
           /\ req[r].op = "create_inventory" /\ req[r].arg = 1
           /\ req[r].result = "IntegrityError"
    /\ inventory[1].exists /\ inventory[1].reserved_stock > 0

\* C24: checkout takes the inventory row locks of its cart lines in one fixed
\* global order, so concurrent checkouts never reach a state in which each
\* holds a row lock the other waits for.
C24_NoDeadlock == \A r \in Reqs : ~Deadlocked(r)

\* a step of a create_payment_session or verify_and_capture_payment call
PaymentStep ==
    \E r \in Reqs :
        /\ req'[r] # req[r]
        /\ req'[r].op \in {"create_payment_session", "verify_and_capture_payment"}

\* a step that changes the status of an order
StatusStep ==
    /\ Len(orders') = Len(orders)
    /\ \E o \in 1..Len(orders) : orders'[o].status # orders[o].status

\* C25: update_status (a change to CANCELLED included), create_payment_session
\* and verify_and_capture_payment (on success and on signature failure) leave
\* total_stock, available_stock and reserved_stock of every inventory row
\* unchanged.
C25_PaymentsLeaveStock ==
    [][PaymentStep \/ StatusStep => inventory' = inventory]_vars

\* the order is cancelled, one of its payments was captured and another failed
\* its signature check, and the order's unit is still reserved
C25_Witness ==
    /\ Len(orders) = 1 /\ orders[1].status = "CANCELLED"
    /\ \E k \in 1..Len(payments) : payments[k].status = "SUCCESS"
    /\ \E k \in 1..Len(payments) : payments[k].status = "FAILED"
    /\ inventory[1].reserved_stock = 1

\* C26: a cart's contents become at most one order.  A checkout that commits
\* an order still finds every cart line it loaded in the cart: none of them
\* was already turned into an order, and reserved, by a concurrent checkout of
\* the same cart.
C26_CartUsedOnce ==
    [][\A r \in Reqs :
          CheckoutCommits(r) =>
              \A i \in 1..Len(req[r].items) :
                  \E c \in Range(cartItems[req[r].user]) : c.id = req[r].items[i].id]_vars

\* create_payment_session call r, which has created its gateway order, ends
SessionEnds(r) ==
    /\ req[r].op = "create_payment_session" /\ req[r].pc = "insert"
    /\ req'[r].pc = "done"

\* C27: when create_payment_session has created a gateway order, the call ends
\* with a new PENDING Payment row that carries that gateway order id, and the
\* row satisfies the column constraints of the payments table:
\* razorpay_payment_id (and razorpay_signature, which is set with it) is not
\* NULL.
C27_SessionRowValid ==
    [][\A r \in Reqs :
          SessionEnds(r) =>
              /\ Len(payments') = Len(payments) + 1
              /\ payments'[Len(payments')].status = "PENDING"
              /\ payments'[Len(payments')].razorpay_order_id = req[r].pay
              /\ payments'[Len(payments')].razorpay_payment_id # 0]_vars

\* C28: as long as neither finalize_stock nor rollback_stock runs, the
\* reserved_stock of every inventory row equals the sum of the quantities of
\* the OrderItems of its product over all orders, whatever the orders' statuses.
C28_ReservedIsOrdered ==
    \A p \in Products :
        inventory[p].exists => inventory[p].reserved_stock = Granted(orders, p)

\* two orders hold two units of product 1 between them, one of them is paid,
\* and an update_inventory call of the admin went through: both units are
\* still reserved
C28_Witness ==
    /\ Len(orders) = 2 /\ Granted(orders, 1) = 2
    /\ \E o \in 1..2 : orders[o].status = "PAID"
    /\ \E r \in Reqs : req[r].op = "update_inventory" /\ req[r].result = "ok"
    /\ inventory[1].reserved_stock = 2

\* C29: verify_and_capture_payment moves an order to PAID only from PENDING;
\* an order that is CANCELLED, SHIPPED or DELIVERED keeps its status when a
\* payment for it is verified.
C29_PaidFromPendingOnly ==
    [][\A r \in Reqs, o \in 1..Len(orders) :
          /\ req[r].op = "verify_and_capture_payment" /\ req'[r] # req[r]
          /\ orders'[o].status # orders[o].status
          => orders[o].status = "PENDING"]_vars

\* checkout r runs the Product query of its current cart line
ReadsProduct(r) ==
    req[r].op = "checkout" /\ req[r].pc = "product" /\ req'[r].pc = "lock"

\* checkout r adds the OrderItem of its current cart line
AddsLine(r) ==
    /\ req[r].op = "checkout" /\ req[r].pc = "lock"
    /\ Len(req'[r].lines) = Len(req[r].lines) + 1

\* C30: the unit_price of an OrderItem is the catalog price the checkout reads,
\* not the unit_price stored on the cart item when it was added: the price the
\* checkout works with is the product's current price, the OrderItem carries
\* that price and its line total, and the committed order holds these lines
\* and the subtotal they add up to.
C30_CatalogPrice ==
    [][\A r \in Reqs :
          /\ ReadsProduct(r) =>
                 req'[r].price = products[req[r].items[req[r].idx].product_id].price
          /\ AddsLine(r) =>
                 LET line == req'[r].lines[Len(req'[r].lines)]
                 IN /\ line.unit_price = req[r].price
                    /\ line.total_price = req[r].price * req[r].items[req[r].idx].quantity
          /\ CheckoutCommits(r) =>
                 /\ orders'[Len(orders')].items = req[r].lines
                 /\ orders'[Len(orders')].subtotal = LineSum(req[r].lines)]_vars

\* the price of product 1 went from 25 to 50 after the only cart item was
\* added: the order has the line at 50 while a second checkout of the same
\* cart still holds that cart item with its stored unit_price of 25
C30_Witness ==
    /\ nextItemId = 2
    /\ Len(orders) = 1
    /\ orders[1].items[1].unit_price = 50 /\ orders[1].subtotal = 50
    /\ orders[1].tax = 9 /\ orders[1].grand_total = 59
    /\ \E r \in Reqs :
           /\ req[r].op = "checkout" /\ ~Free(r)
           /\ req[r].items[1].unit_price = 25

====
